---- MODULE Spec2Model ----
(***************************************************************************)
(* Ring all-reduce of pkg/ringallreduce: P nodes on a directed ring, each  *)
(* running Node.Run (reduce-scatter, then allgather) as a goroutine, the   *)
(* channels between them, and the caller (RingAllReduce.Execute or a       *)
(* hand-built harness as in the package's tests) that wires, starts and    *)
(* joins them.  Values are integers: every input the package is used with  *)
(* is integer valued, and float64 addition is exact on them.               *)
(*                                                                         *)
(* Go slices are 0-based; sequences here are 1-based, so element j of a    *)
(* slice is element j+1 of the sequence that models it.                    *)
(***************************************************************************)
EXTENDS Integers, Sequences, FiniteSets, TLC

\* ---------------------------------------------------------------- bounds
MaxP == 3
MaxChunk == 2
MaxVal == 1
MaxCells == 9

\* ------------------------------------------------------ program constants
\* make(chan Msg, 2)
ChanCap == 2

VARIABLES
    procs,      \* argument procs / Node.P
    chunkSize,  \* argument chunkSize / Node.ChunkSize
    Data,       \* Data[r]: Node.Data of rank r
    In,         \* In[r]: index of the channel Node.In of rank r
    Out,        \* Out[r]: index of the channel Node.Out of rank r
    channels,   \* channels[c]: queued messages of channel c, oldest first
    depth,      \* buffer size the channels are made with
    pc,         \* pc[r]: position of rank r's goroutine in Run
    s,          \* s[r]: loop variable s of rank r
    exec,       \* position of the caller: "call", "run", "returned", "panic"
    spawned,    \* loop variable i of the `go processes[i].Run(&wg)` loop
    wg,         \* counter of the sync.WaitGroup
    warned,     \* ranks that have printed an "Expected chunk" line
    seed,       \* the vectors the nodes were constructed with
    nsent,      \* nsent[r]: messages rank r has sent
    nrecv       \* nrecv[r]: messages rank r has received

vars == <<procs, chunkSize, depth, Data, In, Out, channels, pc, s, exec, spawned,
          wg, warned, seed, nsent, nrecv>>

\* The indices of the processes slice: empty until the caller has built it.
Ranks == DOMAIN pc

Min(a, b) == IF a < b THEN a ELSE b

\* ------------------------------------------------------------ Node.Run
\* Loop bound `s < proc.P` in place of `s < proc.P-1`.
Steps_OneMore == procs

\* Number of iterations of each of the two loops: `s < proc.P-1`.
Steps == procs - 1

\* Go's %: the quotient truncates toward zero, so the remainder has the sign
\* of the dividend.
GoRem(a, b) == IF a >= 0 THEN a % b ELSE 0 - ((0 - a) % b)

\* Rotation in the wrong direction: Rank + s in place of Rank - s.
RSSendIdx_Forward(r, st) == (r + st) % procs

\* sendIdx := (proc.Rank - s + proc.P) % proc.P
RSSendIdx(r, st) == GoRem(r - st + procs, procs)
\* The receive index of the reduce-scatter taken equal to its send index.
RSRecvIdx_SameAsSend(r, st) == (r - st + procs) % procs

\* The receive index without the `+ proc.P` that keeps the dividend positive.
RSRecvIdx_NoWrap(r, st) == GoRem(r - st - 1, procs)

\* recvIdx := (proc.Rank - s - 1 + proc.P) % proc.P
RSRecvIdx(r, st) == GoRem(r - st - 1 + procs, procs)
\* sendIdx := (proc.Rank + 1 + s) % proc.P
AGSendIdx(r, st) == GoRem(r + 1 + st, procs)
\* recvIdx := (proc.Rank + 2 + s) % proc.P
AGRecvIdx(r, st) == GoRem(r + 2 + st, procs)

\* startSend := sendIdx * proc.ChunkSize (and startRecv likewise)
StartOf(idx) == idx * chunkSize

\* msgData := make([]float64, ChunkSize); copy(msgData, Data[start:start+ChunkSize])
Chunk(d, idx) == [k \in 1 .. chunkSize |-> d[StartOf(idx) + k]]

\* `=` in place of `+=`: the received chunk replaces the local one.
Reduce_Assign(d, idx, payload) ==
    [j \in 1 .. Len(d) |->
        IF StartOf(idx) < j /\ j <= StartOf(idx) + chunkSize
        THEN payload[j - StartOf(idx)]
        ELSE d[j]]

\* for i := 0; i < ChunkSize; i++ { Data[startRecv+i] += received.Data[i] }
Reduce(d, idx, payload) ==
    [j \in 1 .. Len(d) |->
        IF StartOf(idx) < j /\ j <= StartOf(idx) + chunkSize
        THEN d[j] + payload[j - StartOf(idx)]
        ELSE d[j]]

\* The payload inserted at startRecv instead of copied over the chunk.
Overwrite_Insert(d, idx, payload) ==
    SubSeq(d, 1, StartOf(idx)) \o payload \o SubSeq(d, StartOf(idx) + 1, Len(d))

\* copy(Data[startRecv:startRecv+ChunkSize], received.Data)
Overwrite(d, idx, payload) ==
    [j \in 1 .. Len(d) |->
        IF StartOf(idx) < j /\ j <= StartOf(idx) + Min(chunkSize, Len(payload))
        THEN payload[j - StartOf(idx)]
        ELSE d[j]]

\* Run returning after the reduce-scatter loop, without the allgather.
AfterRS_SkipAllgather == "exit"

\* Where a goroutine stands once the loop conditions are evaluated.
AfterRS == IF 0 < Steps THEN "ag_send" ELSE "exit"
Entry == IF 0 < Steps THEN "rs_send" ELSE AfterRS

\* A channel that never fills: the send never blocks.
CanSend_Unbounded(r) == TRUE

\* The channel made without a buffer, make(chan Msg): a send finds no room.
CanSend_Unbuffered(r) == Len(channels[Out[r]]) < 0

\* An unbuffered channel taken to hold one message.
CanSend_OneSlot(r) == Len(channels[Out[r]]) < 1

\* A goroutine is blocked in `<-proc.In` on channel c.
Receiving(c) == \E q \in Ranks : In[q] = c /\ pc[q] \in {"rs_recv", "ag_recv"}

\* proc.Out <- Msg{...}: blocks while the channel's buffer is full; on a
\* channel without buffer, until a receiver is waiting to take the message.
CanSend(r) ==
    IF depth = 0
    THEN channels[Out[r]] = <<>> /\ Receiving(Out[r])
    ELSE Len(channels[Out[r]]) < depth

\* Reduce-scatter, first half of an iteration: copy the chunk and send it.
RSSend(r) ==
    /\ pc[r] = "rs_send"
    /\ CanSend(r)
    /\ channels' = [channels EXCEPT ![Out[r]] =
            Append(@, [ChunkIdx |-> RSSendIdx(r, s[r]),
                       Data |-> Chunk(Data[r], RSSendIdx(r, s[r]))])]
    /\ pc' = [pc EXCEPT ![r] = "rs_recv"]
    /\ nsent' = [nsent EXCEPT ![r] = @ + 1]
    /\ UNCHANGED <<procs, chunkSize, depth, Data, In, Out, s, exec, spawned, wg,
                   warned, seed, nrecv>>

\* An endpoint that hands over its newest message instead of its oldest.
RSRecv_Newest(r) ==
    /\ pc[r] = "rs_recv"
    /\ channels[In[r]] # <<>>
    /\ LET queue == channels[In[r]]
           received == queue[Len(queue)]
           recvIdx == RSRecvIdx(r, s[r])
       IN  /\ warned' = IF received.ChunkIdx # recvIdx
                        THEN warned \cup {r} ELSE warned
           /\ Data' = [Data EXCEPT ![r] = Reduce(@, recvIdx, received.Data)]
           /\ channels' = [channels EXCEPT ![In[r]] = SubSeq(queue, 1, Len(queue) - 1)]
    /\ s' = [s EXCEPT ![r] = IF s[r] + 1 < Steps THEN s[r] + 1 ELSE 0]
    /\ pc' = [pc EXCEPT ![r] = IF s[r] + 1 < Steps THEN "rs_send" ELSE AfterRS]
    /\ nrecv' = [nrecv EXCEPT ![r] = @ + 1]
    /\ UNCHANGED <<procs, chunkSize, depth, In, Out, exec, spawned, wg, seed, nsent>>

\* Reduce-scatter, second half: receive, compare the tag, add, next s.
RSRecv(r) ==
    /\ pc[r] = "rs_recv"
    /\ channels[In[r]] # <<>>
    /\ LET received == Head(channels[In[r]])
           recvIdx == RSRecvIdx(r, s[r])
       IN  /\ warned' = IF received.ChunkIdx # recvIdx
                        THEN warned \cup {r} ELSE warned
           /\ Data' = [Data EXCEPT ![r] = Reduce(@, recvIdx, received.Data)]
    /\ channels' = [channels EXCEPT ![In[r]] = Tail(@)]
    /\ s' = [s EXCEPT ![r] = IF s[r] + 1 < Steps THEN s[r] + 1 ELSE 0]
    /\ pc' = [pc EXCEPT ![r] = IF s[r] + 1 < Steps THEN "rs_send" ELSE AfterRS]
    /\ nrecv' = [nrecv EXCEPT ![r] = @ + 1]
    /\ UNCHANGED <<procs, chunkSize, depth, In, Out, exec, spawned, wg, seed, nsent>>

\* Allgather, first half of an iteration.
AGSend(r) ==
    /\ pc[r] = "ag_send"
    /\ CanSend(r)
    /\ channels' = [channels EXCEPT ![Out[r]] =
            Append(@, [ChunkIdx |-> AGSendIdx(r, s[r]),
                       Data |-> Chunk(Data[r], AGSendIdx(r, s[r]))])]
    /\ pc' = [pc EXCEPT ![r] = "ag_recv"]
    /\ nsent' = [nsent EXCEPT ![r] = @ + 1]
    /\ UNCHANGED <<procs, chunkSize, depth, Data, In, Out, s, exec, spawned, wg,
                   warned, seed, nrecv>>

\* Allgather, second half: receive, compare the tag, overwrite, next s.
AGRecv(r) ==
    /\ pc[r] = "ag_recv"
    /\ channels[In[r]] # <<>>
    /\ LET received == Head(channels[In[r]])
           recvIdx == AGRecvIdx(r, s[r])
       IN  /\ warned' = IF received.ChunkIdx # recvIdx
                        THEN warned \cup {r} ELSE warned
           /\ Data' = [Data EXCEPT ![r] = Overwrite(@, recvIdx, received.Data)]
    /\ channels' = [channels EXCEPT ![In[r]] = Tail(@)]
    /\ s' = [s EXCEPT ![r] = IF s[r] + 1 < Steps THEN s[r] + 1 ELSE s[r]]
    /\ pc' = [pc EXCEPT ![r] = IF s[r] + 1 < Steps THEN "ag_send" ELSE "exit"]
    /\ nrecv' = [nrecv EXCEPT ![r] = @ + 1]
    /\ UNCHANGED <<procs, chunkSize, depth, In, Out, exec, spawned, wg, seed, nsent>>

\* Run returns: the deferred wg.Done().
RunExit(r) ==
    /\ pc[r] = "exit"
    /\ pc' = [pc EXCEPT ![r] = "done"]
    /\ wg' = wg - 1
    /\ UNCHANGED <<procs, chunkSize, depth, Data, In, Out, channels, s, exec,
                   spawned, warned, seed, nsent, nrecv>>

\* ------------------------------------------------- the caller's side
\* Out wired to the node's own channel, channels[i].
RingOut_Self(p) == [r \in 0 .. (p - 1) |-> r]

\* channels[(i+1)%p]
RingOut(p) == [r \in 0 .. (p - 1) |-> (r + 1) % p]
RingIn(p) == [r \in 0 .. (p - 1) |-> r]

\* data[j] = float64(i + 1)
UniformValue(r) == r + 1
UniformData(p, cs) ==
    [r \in 0 .. (p - 1) |-> [j \in 1 .. (p * cs) |-> UniformValue(r)]]

\* data[j] = float64(1000*c + 10*k + i), c = j / chunkSize, k = j % chunkSize
DistinctData(p, cs) ==
    [r \in 0 .. (p - 1) |->
        [j \in 1 .. (p * cs) |->
            1000 * ((j - 1) \div cs) + 10 * ((j - 1) % cs) + r]]

\* wg.Add(p)
WgAdd(p) == p

\* A caller that does not wait for the counter.
WaitReturns_NoWait == TRUE

\* wg.Wait() returns once the counter is zero.
WaitReturns == wg = 0

\* The nodes, wait group and channels of buffer size d as built by a caller,
\* before any goroutine is started.
BuiltDepth(p, cs, data, in, out, d) ==
    /\ procs = p
    /\ chunkSize = cs
    /\ Data = data
    /\ seed = data
    /\ In = in
    /\ Out = out
    /\ channels = [c \in 0 .. (p - 1) |-> <<>>]
    /\ depth = d
    /\ pc = [r \in 0 .. (p - 1) |-> "idle"]
    /\ s = [r \in 0 .. (p - 1) |-> 0]
    /\ nsent = [r \in 0 .. (p - 1) |-> 0]
    /\ nrecv = [r \in 0 .. (p - 1) |-> 0]
    /\ warned = {}
    /\ spawned = 0
    /\ wg = WgAdd(p)
    /\ exec = "run"

\* The same with the channels of the code, make(chan Msg, 2).
Built(p, cs, data, in, out) == BuiltDepth(p, cs, data, in, out, ChanCap)

\* Execute(procs, chunkSize) has been called and nothing is built yet.
InitExecute ==
    /\ procs \in -1 .. MaxP
    /\ chunkSize \in -1 .. MaxChunk
    /\ Data = <<>>
    /\ seed = <<>>
    /\ In = <<>>
    /\ Out = <<>>
    /\ channels = <<>>
    /\ depth = 0
    /\ pc = <<>>
    /\ s = <<>>
    /\ nsent = <<>>
    /\ nrecv = <<>>
    /\ warned = {}
    /\ spawned = 0
    /\ wg = 0
    /\ exec = "call"

\* Execute up to wg.Add(p).  make() panics on a negative length: of the
\* channel slice when procs < 0, of the first data slice when
\* procs * chunkSize < 0.
ExecuteSetup ==
    /\ exec = "call"
    /\ \/ /\ procs < 0 \/ (procs >= 1 /\ procs * chunkSize < 0)
          /\ exec' = "panic"
          /\ UNCHANGED <<depth, Data, In, Out, channels, pc, s, wg, seed, nsent, nrecv>>
       \/ /\ ~(procs < 0 \/ (procs >= 1 /\ procs * chunkSize < 0))
          /\ Data' = UniformData(procs, chunkSize)
          /\ seed' = UniformData(procs, chunkSize)
          /\ In' = RingIn(procs)
          /\ Out' = RingOut(procs)
          /\ channels' = [c \in 0 .. (procs - 1) |-> <<>>]
          /\ depth' = ChanCap
          /\ pc' = [r \in 0 .. (procs - 1) |-> "idle"]
          /\ s' = [r \in 0 .. (procs - 1) |-> 0]
          /\ nsent' = [r \in 0 .. (procs - 1) |-> 0]
          /\ nrecv' = [r \in 0 .. (procs - 1) |-> 0]
          /\ wg' = WgAdd(procs)
          /\ exec' = "run"
    /\ UNCHANGED <<procs, chunkSize, spawned, warned>>

\* go processes[i].Run(&wg)
Spawn ==
    /\ exec = "run"
    /\ spawned < procs
    /\ pc' = [pc EXCEPT ![spawned] = Entry]
    /\ spawned' = spawned + 1
    /\ UNCHANGED <<procs, chunkSize, depth, Data, In, Out, channels, s, exec, wg,
                   warned, seed, nsent, nrecv>>

\* wg.Wait() returns and the caller goes on with the nodes.
Wait ==
    /\ exec = "run"
    /\ ~(spawned < procs)
    /\ WaitReturns
    /\ exec' = "returned"
    /\ UNCHANGED <<procs, chunkSize, depth, Data, In, Out, channels, pc, s, spawned,
                   wg, warned, seed, nsent, nrecv>>

\* ------------------------------------------------------ specifications
NextRun ==
    \/ Spawn
    \/ \E r \in Ranks : RSSend(r)
    \/ \E r \in Ranks : RSRecv(r)
    \/ \E r \in Ranks : AGSend(r)
    \/ \E r \in Ranks : AGRecv(r)
    \/ \E r \in Ranks : RunExit(r)
    \/ Wait

Next == ExecuteSetup \/ NextRun

\* RingAllReduce.Execute called with arguments around the valid range.
Spec == InitExecute /\ [][Next]_vars

\* The Go scheduler runs every runnable goroutine eventually.
FairSpec == Spec /\ WF_vars(Next)

\* A harness that builds the nodes itself with the distinct-chunk data.
InitDistinct ==
    \E p \in 1 .. MaxP, cs \in 1 .. MaxChunk :
        Built(p, cs, DistinctData(p, cs), RingIn(p), RingOut(p))

SpecDistinct == InitDistinct /\ [][NextRun]_vars

\* A harness that builds the ring with vectors of its own choice.
InitCustom ==
    \E p \in 1 .. MaxP, cs \in 1 .. MaxChunk :
        /\ p * p * cs <= MaxCells
        /\ \E data \in [0 .. (p - 1) -> [1 .. (p * cs) -> 0 .. MaxVal]] :
              Built(p, cs, data, RingIn(p), RingOut(p))

SpecCustom == InitCustom /\ [][NextRun]_vars

\* A harness that builds the ring with channels of buffer size 0 up to the
\* code's, make(chan Msg) .. make(chan Msg, 2).
InitDepth ==
    \E p \in 1 .. MaxP, cs \in 1 .. MaxChunk, d \in 0 .. ChanCap :
        BuiltDepth(p, cs, DistinctData(p, cs), RingIn(p), RingOut(p), d)

SpecDepth == InitDepth /\ [][NextRun]_vars


\* ------------------------------------------------------------- claims
\* Every node the caller built has been started and has returned from Run.
AllDone == Ranks = 0 .. (procs - 1) /\ \A r \in Ranks : pc[r] = "done"

RECURSIVE SeedSum(_, _)
\* Sum of element j of the initial vectors of ranks 0 .. n-1.
SeedSum(j, n) == IF n = 0 THEN 0 ELSE seed[n - 1][j] + SeedSum(j, n - 1)

\* C1: once all participants of a ring have finished Run, every element of
\* every participant's data is the sum of that element over all P initial
\* vectors.
C1_FinalIsElementwiseSum ==
    AllDone =>
        \A r \in Ranks : \A j \in 1 .. (procs * chunkSize) :
            Data[r][j] = SeedSum(j, procs)

C1_Witness ==
    /\ AllDone
    /\ procs = 3
    /\ \E j \in 1 .. (procs * chunkSize) : SeedSum(j, procs) = 2
    /\ \E j \in 1 .. (procs * chunkSize) : SeedSum(j, procs) = 0

\* C2: distinct-chunk law: with element j of participant i seeded as
\* 1000*c + 10*k + i (c = j div chunkSize, k = j mod chunkSize), element j of
\* every participant ends as P*(1000*c + 10*k) + P*(P-1)/2.
C2_DistinctChunkLaw ==
    AllDone =>
        \A r \in Ranks : \A j \in 0 .. (procs * chunkSize - 1) :
            Data[r][j + 1] =
                procs * (1000 * (j \div chunkSize) + 10 * (j % chunkSize))
                    + (procs * (procs - 1)) \div 2

C2_Witness == AllDone /\ procs = 3 /\ chunkSize = 2 /\ Data[0][6] = 6033

\* C3: uniform input law: Execute(P, chunkSize) with P >= 1, chunkSize >= 1
\* returns P participants whose every element is P*(P+1)/2.
C3_UniformInputLaw ==
    (exec = "returned" /\ procs >= 1 /\ chunkSize >= 1) =>
        /\ DOMAIN Data = 0 .. (procs - 1)
        /\ \A r \in DOMAIN Data :
              /\ Len(Data[r]) = procs * chunkSize
              /\ \A j \in 1 .. Len(Data[r]) :
                    Data[r][j] = (procs * (procs + 1)) \div 2

C3_Witness ==
    exec = "returned" /\ procs = 3 /\ chunkSize = 2 /\ Data[2][6] = 6

\* C4: convergence: once all participants have finished Run, any two of them
\* hold the same vector.
C4_Convergence ==
    AllDone => \A r1, r2 \in Ranks : Data[r1] = Data[r2]

C4_Witness ==
    /\ AllDone
    /\ procs = 3
    /\ \E r1, r2 \in Ranks : seed[r1] # seed[r2]
    /\ Data[0] # seed[0]

\* C5: with the ring and the depth-2 channels built by Execute, for P >= 1
\* and chunkSize >= 1 no state short of completion is stuck, and under fair
\* scheduling every participant completes both phases and Execute returns.
C5_DeadlockFreeAndTerminates ==
    /\ []((procs >= 1 /\ chunkSize >= 1 /\ exec # "returned") => ENABLED Next)
    /\ (procs >= 1 /\ chunkSize >= 1) => <>(AllDone /\ exec = "returned")

C5_Witness ==
    /\ exec = "returned"
    /\ procs = 3
    /\ chunkSize >= 1
    /\ \A r \in Ranks : nsent[r] = 4 /\ nrecv[r] = 4

\* C6: join barrier: once Execute has returned, every participant has
\* completed both phases and returned from Run, and the wait group is at 0.
C6_JoinBarrier ==
    exec = "returned" => (AllDone /\ wg = 0)

C6_Witness == exec = "returned" /\ procs = 3 /\ \A r \in Ranks : nrecv[r] = 4

\* C7: with P = 1 the participant never sends or receives, is never in a
\* send or receive position, can always return once started, and its data
\* stays equal to its initial vector.
C7_SingleParticipant ==
    procs = 1 =>
        /\ nsent[0] = 0
        /\ nrecv[0] = 0
        /\ channels[0] = <<>>
        /\ pc[0] \in {"idle", "exit", "done"}
        /\ pc[0] = "exit" => ENABLED RunExit(0)
        /\ Data[0] = seed[0]

C7_Witness ==
    /\ procs = 1
    /\ chunkSize = 2
    /\ exec = "returned"
    /\ pc[0] = "done"
    /\ Data[0] = <<0, 1>>

\* C8: a participant that has received a message whose chunkIndex differs
\* from its recvIdx does not go on with the protocol, and the caller gets no
\* result back.
C8_MismatchAbortsRun ==
    warned # {} =>
        /\ exec # "returned"
        /\ \A r \in warned :
              pc[r] \notin {"rs_send", "rs_recv", "ag_send", "ag_recv", "exit", "done"}

\* C9: Execute called with P < 1 or chunkSize < 1 starts no participant,
\* sends no message and returns no result.
C9_ConfigurationError ==
    (procs < 1 \/ chunkSize < 1) =>
        /\ exec # "returned"
        /\ \A r \in Ranks : pc[r] = "idle" /\ nsent[r] = 0

\* C10: in every state of a run, every participant's data has length
\* P*chunkSize, the length it was built with.
C10_SizeInvariant ==
    \A r \in Ranks :
        /\ Len(Data[r]) = procs * chunkSize
        /\ Len(Data[r]) = Len(seed[r])

C10_Witness ==
    /\ AllDone
    /\ procs = 3
    /\ chunkSize = 2
    /\ \A r \in Ranks : Len(Data[r]) = 6 /\ nrecv[r] = 4

\* The sums of the initial values of chunk idx, one per offset.
SeedSumChunk(idx) == [k \in 1 .. chunkSize |-> SeedSum(StartOf(idx) + k, procs)]

\* Rank r has finished its reduce-scatter steps and no allgather step yet.
AtPhaseBoundary(r) == nrecv[r] = Steps /\ pc[r] \in {"ag_send", "exit"}

\* C11: when participant r has finished its P-1 reduce-scatter steps and has
\* not begun the allgather, its chunk (r+1) mod P holds the elementwise sum of
\* all P initial values of that chunk.
C11_ReduceScatterPostcondition ==
    \A r \in Ranks :
        AtPhaseBoundary(r) =>
            Chunk(Data[r], (r + 1) % procs) = SeedSumChunk((r + 1) % procs)

C11_Witness ==
    /\ procs = 3
    /\ \E r \in Ranks :
          /\ AtPhaseBoundary(r)
          /\ pc[r] = "ag_send"
          /\ SeedSumChunk((r + 1) % procs) = <<2>>
          /\ Chunk(seed[r], (r + 1) % procs) = <<0>>

\* C12: for P >= 2, the message a participant is about to receive in an
\* allgather step carries chunkIndex equal to that step's recvIdx.
C12_AllgatherTagAgreement ==
    \A r \in Ranks :
        (procs >= 2 /\ pc[r] = "ag_recv" /\ channels[In[r]] # <<>>) =>
            Head(channels[In[r]]).ChunkIdx = AGRecvIdx(r, s[r])

\* C13: for P >= 2, the message a participant is about to receive in a
\* reduce-scatter step carries chunkIndex equal to that step's recvIdx,
\* wherever its left neighbor stands, and no participant prints a mismatch
\* while it is in the reduce-scatter phase.
C13_ReduceScatterTagAgreement ==
    \A r \in Ranks :
        /\ (procs >= 2 /\ pc[r] = "rs_recv" /\ channels[In[r]] # <<>>) =>
              Head(channels[In[r]]).ChunkIdx = RSRecvIdx(r, s[r])
        /\ (pc[r] \in {"rs_send", "rs_recv"} \/ AtPhaseBoundary(r)) => r \notin warned

C13_Witness ==
    /\ procs = 3
    /\ exec = "run"
    /\ pc[1] = "rs_recv"
    /\ s[1] = 0
    /\ pc[0] \in {"ag_send", "ag_recv"}
    /\ Len(channels[In[1]]) = 2
    /\ Head(channels[In[1]]).ChunkIdx = 0

\* C14: the payload a participant is about to send in an allgather step, its
\* chunk at sendIdx, is the elementwise sum of all P initial values of chunk
\* sendIdx.
C14_AllgatherSendsReducedChunks ==
    \A r \in Ranks :
        pc[r] = "ag_send" =>
            Chunk(Data[r], AGSendIdx(r, s[r])) = SeedSumChunk(AGSendIdx(r, s[r]))

\* C15 as stated: no endpoint ever holds more than one queued message.
C15_AtMostOneInFlight ==
    \A c \in DOMAIN channels : Len(channels[c]) <= 1

\* C15, amended: the messages a participant has sent and its right neighbor
\* has not yet received are the ones queued at the neighbor's endpoint, at
\* most two of them (the channel depth); and each participant is at most one
\* send ahead of its own receives.
C15_InFlightBound ==
    \A r \in Ranks :
        /\ procs >= 2 =>
              Len(channels[Out[r]]) = nsent[r] - nrecv[(r + 1) % procs]
        /\ Len(channels[Out[r]]) <= 2
        /\ nsent[r] - nrecv[r] \in {0, 1}
        /\ (nsent[r] - nrecv[r] = 1) <=> pc[r] \in {"rs_recv", "ag_recv"}

C15_Witness ==
    /\ procs = 3
    /\ \E r \in Ranks :
          /\ Len(channels[Out[r]]) = 2
          /\ pc[r] \in {"rs_recv", "ag_recv"}
          /\ nsent[r] - nrecv[(r + 1) % procs] = 2

\* The rank that receives on the endpoint rank r sends to.
RightOf(r) == CHOOSE q \in Ranks : In[q] = Out[r]

RECURSIVE Walk(_, _)
\* The rank reached from r by following n outbound edges.
Walk(r, n) == IF n = 0 THEN r ELSE Walk(RightOf(r), n - 1)

\* C17: once Execute has built the nodes, and for the rest of the run,
\* participant i receives on endpoint i and sends to endpoint (i+1) mod P,
\* every endpoint has exactly one sender and one receiver, and the outbound
\* edges followed from rank 0 visit every rank once and return to 0 after P
\* edges.
C17_RingWiring ==
    exec \in {"run", "returned"} =>
        /\ DOMAIN In = 0 .. (procs - 1)
        /\ DOMAIN Out = 0 .. (procs - 1)
        /\ DOMAIN channels = 0 .. (procs - 1)
        /\ \A i \in Ranks : In[i] = i /\ Out[i] = (i + 1) % procs
        /\ \A c \in DOMAIN channels :
              /\ Cardinality({r \in Ranks : Out[r] = c}) = 1
              /\ Cardinality({r \in Ranks : In[r] = c}) = 1
        /\ procs >= 1 =>
              /\ {Walk(0, n) : n \in 0 .. (procs - 1)} = Ranks
              /\ Walk(0, procs) = 0

C17_Witness ==
    /\ exec = "returned"
    /\ procs = 3
    /\ Walk(0, 1) = 1
    /\ Walk(0, 2) = 2
    /\ \A r \in Ranks : nsent[r] = 4

\* C19: no participant ever sends or receives more than 2*(P-1) messages, and
\* once all participants have completed each has sent exactly 2*(P-1) and
\* received exactly 2*(P-1), and every endpoint is empty.
C19_ChannelsDrained ==
    /\ \A r \in Ranks : nsent[r] <= 2 * (procs - 1) /\ nrecv[r] <= 2 * (procs - 1)
    /\ AllDone =>
          /\ \A r \in Ranks : nsent[r] = 2 * (procs - 1) /\ nrecv[r] = 2 * (procs - 1)
          /\ \A c \in DOMAIN channels : channels[c] = <<>>

C19_Witness ==
    /\ AllDone
    /\ procs = 3
    /\ \A r \in Ranks : nsent[r] = 4 /\ nrecv[r] = 4 /\ channels[r] = <<>>

\* The rank that sends to the endpoint rank r receives on.
LeftOf(r) == CHOOSE q \in Ranks : Out[q] = In[r]

\* One reduce-scatter step taken by all ranks together: all send, then all
\* receive.
RSRound(D, st) ==
    [r \in Ranks |->
        Reduce(D[r], RSRecvIdx(r, st),
               Chunk(D[LeftOf(r)], RSSendIdx(LeftOf(r), st)))]

\* One allgather step taken by all ranks together.
AGRound(D, st) ==
    [r \in Ranks |->
        Overwrite(D[r], AGRecvIdx(r, st),
                  Chunk(D[LeftOf(r)], AGSendIdx(LeftOf(r), st)))]

RECURSIVE RSRounds(_, _)
RSRounds(D, st) == IF st < Steps THEN RSRounds(RSRound(D, st), st + 1) ELSE D

RECURSIVE AGRounds(_, _)
AGRounds(D, st) == IF st < Steps THEN AGRounds(AGRound(D, st), st + 1) ELSE D

\* The vectors the one lockstep schedule ends with, from the initial vectors.
LockstepResult == AGRounds(RSRounds(seed, 0), 0)

\* C18: whatever the interleaving, once all participants have completed,
\* their vectors are the ones the lockstep schedule computes from the same
\* P, chunkSize and initial vectors: the final state depends on the inputs
\* only.
C18_ScheduleIndependence ==
    AllDone => Data = LockstepResult

C18_Witness ==
    /\ AllDone
    /\ procs = 3
    /\ Data = LockstepResult
    /\ Data[0] # Data[1]
    /\ Data[0] # seed[0]

\* Chunk idx of rank r's vector lies inside the vector.
ChunkInside(r, idx) ==
    /\ idx \in 0 .. (procs - 1)
    /\ 0 <= StartOf(idx)
    /\ StartOf(idx) + chunkSize <= Len(Data[r])

\* C20: at every step of either phase the dividends of the index
\* computations are not negative, sendIdx and recvIdx lie in [0, P), the
\* chunks read and written lie inside the vector of length P*chunkSize, and
\* every message in flight carries a chunk index in [0, P) and a payload of
\* exactly chunkSize elements.
C20_IndexSafety ==
    /\ \A r \in Ranks :
          /\ s[r] \in 0 .. (procs - 1)
          /\ Len(Data[r]) = procs * chunkSize
          /\ pc[r] \in {"rs_send", "rs_recv"} =>
                /\ s[r] <= procs - 2
                /\ r - s[r] + procs >= 0
                /\ r - s[r] - 1 + procs >= 0
                /\ ChunkInside(r, RSSendIdx(r, s[r]))
                /\ ChunkInside(r, RSRecvIdx(r, s[r]))
          /\ pc[r] \in {"ag_send", "ag_recv"} =>
                /\ s[r] <= procs - 2
                /\ ChunkInside(r, AGSendIdx(r, s[r]))
                /\ ChunkInside(r, AGRecvIdx(r, s[r]))
    /\ \A c \in DOMAIN channels : \A i \in 1 .. Len(channels[c]) :
          /\ channels[c][i].ChunkIdx \in 0 .. (procs - 1)
          /\ Len(channels[c][i].Data) = chunkSize

C20_Witness ==
    /\ procs = 3
    /\ chunkSize = 2
    /\ pc[0] = "rs_recv"
    /\ s[0] = 1
    /\ RSSendIdx(0, 1) = 2
    /\ RSRecvIdx(0, 1) = 1
    /\ channels[0] # <<>>
    /\ pc[1] = "ag_recv"
    /\ AGRecvIdx(1, s[1]) = 0

\* C16 as stated: with endpoints of depth 0 and send before receive in every
\* step, for P >= 2 no state short of completion is stuck.
C16_Depth0Completes ==
    (depth = 0 /\ procs >= 2 /\ exec # "returned") => ENABLED NextRun

\* C16, amended: with endpoints of depth 0 and send before receive in every
\* step, for P >= 2 every participant blocks in its first send: no message is
\* ever sent, no participant finishes, and once all are started nothing can
\* move.  With depth 1 or 2 no state short of completion is stuck.
C16_Depth0Blocks ==
    /\ (depth = 0 /\ procs >= 2) =>
          /\ exec = "run"
          /\ \A r \in Ranks : nsent[r] = 0 /\ pc[r] \in {"idle", "rs_send"}
          /\ spawned = procs => ~ENABLED NextRun
    /\ (depth >= 1 /\ exec # "returned") => ENABLED NextRun

C16_Witness ==
    /\ depth = 0
    /\ procs = 3
    /\ spawned = 3
    /\ \A r \in Ranks : pc[r] = "rs_send" /\ channels[r] = <<>>

====
